---------------------------- MODULE Spec2Model ----------------------------
(***************************************************************************)
(* A model of js_typify_gostruct: the lexer (typify_gostruct/src/          *)
(* scanner.rs), the recursive-descent parser (src/treewalk/parser.rs), the *)
(* tree-walking renderer (src/treewalk/interpreter.rs) and the TypeScript  *)
(* renderer (typify_gostruct/src/interpreters/typescript.rs).              *)
(*                                                                         *)
(* Text the program builds with format!/push_str is modelled as the        *)
(* sequence of its lexical pieces: concatenating the pieces of a value     *)
(* gives the string the code builds.  The scanner works on sequences of    *)
(* one-character strings.                                                  *)
(***************************************************************************)
EXTENDS Naturals, Sequences, FiniteSets, TLC

VARIABLES
    pc,               \* position of the running function: where its loop is
    input,            \* scan: the source text, a sequence of characters
    scanner,          \* scan: the Scanner struct
    scan_tokens,      \* scan: the local Vec `tokens`
    scan_errors,      \* scan: the local Vec `errors`
    scan_result,      \* scan: the returned Result
    tokens,           \* parse: the token slice it is given
    peekable_tokens,  \* parse: the cursor, the number of tokens consumed
    statements,       \* parse: the local Vec `statements`
    errors,           \* parse: the local Vec `errors`
    parse_result,     \* parse: the returned Result
    calls,            \* history: every parse_declaration call made by parse
    mode,             \* which renderer runs: "treewalk" or "typescript"
    transform_to,     \* interpret: the TransformTo it is given
    ast,              \* interpret: the sequence of items it is given
    ast_pos,          \* interpret: the number of items consumed
    target,           \* interpret: the text built so far (`target`, `result`)
    interpret_result  \* interpret: the returned value

scanVars == <<input, scanner, scan_tokens, scan_errors, scan_result>>
parseVars == <<tokens, peekable_tokens, statements, errors, parse_result, calls>>
renderVars == <<mode, transform_to, ast, ast_pos, target, interpret_result>>
vars == <<pc, scanVars, parseVars, renderVars>>

Null == [none |-> TRUE]

(***************************************************************************)
(* Bounds of the model.                                                    *)
(***************************************************************************)
MaxSrcLen == 5
MaxTokens == 3
MaxStructs == 2
MaxFields == 2

(***************************************************************************)
(* Characters.  The grave accent cannot be written inside a TLA+ string,   *)
(* so the one-character string is named.                                   *)
(***************************************************************************)
Backtick == "U+0060"
Quote == "\""
Newline == "\n"
\* a character outside ASCII (e with acute accent): two bytes in a String
EAcute == "U+00E9"

Lower == {"a","b","c","d","e","f","g","h","i","j","k","l","m",
          "n","o","p","q","r","s","t","u","v","w","x","y","z"}
Upper == {"A","B","C","D","E","F","G","H","I","J","K","L","M",
          "N","O","P","Q","R","S","T","U","V","W","X","Y","Z"}
Digits == {"0","1","2","3","4","5","6","7","8","9"}
Punct == {":", "{", "}", Backtick, "[", "]", "*", Quote, Newline,
          " ", "\r", "\t", ".", "-", "_"}
NonAscii == {EAcute}
Char == Lower \cup Upper \cup Digits \cup Punct \cup NonAscii

\* char::len_utf8 and String::len: the length in bytes
len_utf8(c) == IF c \in NonAscii THEN 2 ELSE 1

RECURSIVE len(_)
len(text) == IF text = <<>> THEN 0 ELSE len_utf8(Head(text)) + len(Tail(text))

\* .chars().skip(n).take(m).collect()
skip_take(text, n, m) ==
    SubSeq(text, n + 1, IF n + m <= Len(text) THEN n + m ELSE Len(text))

is_digit(c) == c \in Digits
is_alpha(c) == c \in Lower \/ c \in Upper \/ c = "." \/ c = "-"
is_alphanumeric(c) == is_digit(c) \/ is_alpha(c)
is_nextline(c) == c = Newline
is_whitespace(c) == c \in {" ", "\r", "\t"}

(***************************************************************************)
(* Position                                                                *)
(***************************************************************************)
initial == [line |-> 1, column |-> 1]
increment_column(p) == [p EXCEPT !.column = p.column + 1]
increment_line(p) == [line |-> p.line + 1, column |-> 1]

(***************************************************************************)
(* Scanner.  `source` is the Peekable<Chars>: the characters not yet       *)
(* consumed.                                                               *)
(***************************************************************************)
initialize(src) ==
    [current_position |-> initial, current_lexeme |-> <<>>, source |-> src]

\* advance: the scanner after the call (the character returned is the head
\* of `source` before it)
advance(sc) ==
    IF sc.source = <<>> THEN sc
    ELSE LET c == Head(sc.source) IN
         [current_lexeme |-> Append(sc.current_lexeme, c),
          current_position |->
              IF c = Newline THEN increment_line(sc.current_position)
              ELSE increment_column(sc.current_position),
          source |-> Tail(sc.source)]

\* peek_check, with the closure given as the set of characters it accepts
peek_check(sc, accepted) ==
    IF sc.source = <<>> THEN FALSE ELSE Head(sc.source) \in accepted

advance_if_match(sc, expected) ==
    IF peek_check(sc, {expected})
    THEN [matched |-> TRUE, scanner |-> advance(sc)]
    ELSE [matched |-> FALSE, scanner |-> sc]

RECURSIVE advance_while(_, _)
advance_while(sc, accepted) ==
    IF peek_check(sc, accepted) THEN advance_while(advance(sc), accepted)
    ELSE sc

MissingStringTerminator(p) == [kind |-> "MissingStringTerminator", position |-> p]

\* Scanner::string: the Result and the scanner after the call
string(sc) ==
    LET s1 == advance_while(sc, Char \ {Quote, Newline})
        m == advance_if_match(s1, Quote)
    IN  IF ~m.matched
        THEN [ok |-> FALSE,
              error |-> MissingStringTerminator(s1.current_position),
              scanner |-> m.scanner]
        ELSE LET lex == m.scanner.current_lexeme
                 literal_length == len(lex) - 2
             IN [ok |-> TRUE,
                 token |-> [kind |-> "StringLiteral",
                            text |-> skip_take(lex, 1, literal_length)],
                 scanner |-> m.scanner]

\* the keyword table of Scanner::identifier
keyword(lexeme) ==
    CASE lexeme = <<"t","y","p","e">> -> [kind |-> "Type"]
      [] lexeme = <<"s","t","r","u","c","t">> -> [kind |-> "Struct"]
      [] lexeme = <<"i","n","t","6","4">> -> [kind |-> "DataType", dtype |-> "Number"]
      [] lexeme = <<"f","l","o","a","t","6","4">> -> [kind |-> "DataType", dtype |-> "Number"]
      [] lexeme = <<"s","t","r","i","n","g">> -> [kind |-> "DataType", dtype |-> "String"]
      [] lexeme = <<"i","n","t">> -> [kind |-> "DataType", dtype |-> "Number"]
      [] lexeme = <<"t","i","m","e",".","T","i","m","e">> -> [kind |-> "DataType", dtype |-> "String"]
      [] lexeme = <<"b","o","o","l">> -> [kind |-> "DataType", dtype |-> "Boolean"]
      [] OTHER -> [kind |-> "Identifier", text |-> lexeme]

identifier(sc) ==
    LET s1 == advance_while(sc, {c \in Char : is_alphanumeric(c)})
    IN [ok |-> TRUE, token |-> keyword(s1.current_lexeme), scanner |-> s1]

\* an add_context that stamps the token with the position of its end
add_context_end_position(sc, token, initial_position) ==
    [token |-> token, lexeme |-> sc.current_lexeme, position |-> sc.current_position]

add_context(sc, token, initial_position) ==
    [token |-> token, lexeme |-> sc.current_lexeme, position |-> initial_position]

\* scan_next: Null at the end of the source, otherwise the Result (a
\* TokenWithContext or a ScannerError) and the scanner after the call
scan_next(sc) ==
    LET initial_position == sc.current_position
        s0 == advance([sc EXCEPT !.current_lexeme = <<>>])
    IN  IF sc.source = <<>> THEN Null
        ELSE LET next_char == Head(sc.source)
                 plain(k) == [ok |-> TRUE, token |-> [kind |-> k], scanner |-> s0]
                 result ==
                     CASE next_char = ":" -> plain("Colon")
                       [] next_char = "{" -> plain("LeftBrace")
                       [] next_char = "}" -> plain("RightBrace")
                       [] next_char = Backtick -> plain("Graveaccent")
                       [] next_char = "[" -> plain("LeftBracket")
                       [] next_char = "]" -> plain("RightBracket")
                       [] next_char = "*" -> plain("Pointer")
                       [] is_nextline(next_char) -> plain("NextLine")
                       [] is_whitespace(next_char) -> plain("Whitespace")
                       [] next_char = Quote -> string(s0)
                       [] OTHER -> identifier(s0)
             IN  IF result.ok
                 THEN [none |-> FALSE, ok |-> TRUE,
                       token |-> add_context(result.scanner, result.token,
                                             initial_position),
                       scanner |-> result.scanner]
                 ELSE [none |-> FALSE, ok |-> FALSE, error |-> result.error,
                       scanner |-> result.scanner]

\* format!("{:?}", error) of a ScannerError, as its pieces
debug_ScannerError(e) ==
    <<"MissingStringTerminator(Position { line: ", ToString(e.position.line),
      ", column: ", ToString(e.position.column), " })">>

Ok(v) == [ok |-> TRUE, value |-> v]
Err(e) == [ok |-> FALSE, value |-> e]

\* a scan that gives up at its first lexical error
scan_return_first_error(toks, errs) ==
    IF errs = <<>> THEN Ok(toks) ELSE Err(<<Head(errs)>>)

scan_return(toks, errs) ==
    IF errs = <<>> THEN Ok(toks) ELSE Err(errs)

(***************************************************************************)
(* scan: one action per iteration of its for loop, one for its return.     *)
(***************************************************************************)
ScanAlphabet == {"a", " ", "*", Quote, Newline, ":", EAcute}

RECURSIVE Flatten(_)
Flatten(ss) == IF ss = <<>> THEN <<>> ELSE Head(ss) \o Flatten(Tail(ss))

RECURSIVE SeqsUpTo(_, _)
SeqsUpTo(S, n) ==
    IF n = 0 THEN {<<>>}
    ELSE LET shorter == SeqsUpTo(S, n - 1)
         IN shorter \cup {Append(s, x) : s \in shorter, x \in S}

SampleSources ==
    { <<"t","y","p","e"," ","*","A"," ","s","t","r","u","c","t"," ","{","}">>,
      <<"F"," ","i","n","t","\n","G"," ","[","]","b","o","o","l">>,
      <<"F"," ","s","t","r","i","n","g"," ",Backtick,"j",":",Quote,"f",Quote,Backtick>>,
      <<"T"," ","t","i","m","e",".","T","i","m","e"," ",Quote,"x","\n",Quote,"y">> }

ScanInputs == SeqsUpTo(ScanAlphabet, MaxSrcLen) \cup SampleSources

ScanIdle ==
    /\ input = <<>>
    /\ scanner = initialize(<<>>)
    /\ scan_tokens = <<>>
    /\ scan_errors = <<>>
    /\ scan_result = Null

ParseIdle ==
    /\ tokens = <<>>
    /\ peekable_tokens = 0
    /\ statements = <<>>
    /\ errors = <<>>
    /\ parse_result = Null
    /\ calls = <<>>

RenderIdle ==
    /\ mode = "none"
    /\ transform_to = "none"
    /\ ast = <<>>
    /\ ast_pos = 0
    /\ target = <<>>
    /\ interpret_result = Null

InitScan ==
    /\ pc = "scan"
    /\ input \in ScanInputs
    /\ scanner = initialize(input)
    /\ scan_tokens = <<>>
    /\ scan_errors = <<>>
    /\ scan_result = Null
    /\ ParseIdle
    /\ RenderIdle

ScanStep ==
    /\ pc = "scan"
    /\ LET r == scan_next(scanner) IN
       /\ ~r.none
       /\ scanner' = r.scanner
       /\ IF r.ok
          THEN /\ scan_tokens' =
                     IF r.token.token.kind \in {"Whitespace", "Pointer"}
                     THEN scan_tokens
                     ELSE Append(scan_tokens, r.token)
               /\ UNCHANGED scan_errors
          ELSE /\ scan_errors' = Append(scan_errors, debug_ScannerError(r.error))
               /\ UNCHANGED scan_tokens
    /\ UNCHANGED <<pc, input, scan_result, parseVars, renderVars>>

ScanReturn ==
    /\ pc = "scan"
    /\ scan_next(scanner).none
    /\ scan_result' = scan_return(scan_tokens, scan_errors)
    /\ pc' = "scanned"
    /\ UNCHANGED <<input, scanner, scan_tokens, scan_errors, parseVars, renderVars>>

NextScan == ScanStep \/ ScanReturn

SpecScan == InitScan /\ [][NextScan]_vars

(***************************************************************************)
(* The parser of src/treewalk/parser.rs.  Its tokens come from the scanner *)
(* of its own crate version (with the Json and Binding keywords and the    *)
(* data type Any); identifiers, literals and lexemes are strings here.     *)
(* Every function takes the token slice and the cursor of the Peekable     *)
(* (the number of tokens consumed) and returns its Result together with    *)
(* the cursor after the call.                                              *)
(***************************************************************************)
HasNext(toks, n) == n < Len(toks)
Peek(toks, n) == toks[n + 1].token

UnexpectedEndOfFile == [kind |-> "UnexpectedEndOfFile"]
UnknownError == [kind |-> "UnknownError"]
Missing(element, lexeme, position) ==
    [kind |-> "Missing", element |-> element, lexeme |-> lexeme,
     position |-> position]

\* impl Display for ParseError (with Display for RequiredElements, whose
\* text is the element's name)
fmt_ParseError(e) ==
    CASE e.kind = "UnexpectedEndOfFile" -> <<"Unexpected End Of file">>
      [] e.kind = "UnknownError" ->
           <<"We have encountered an unknown error. This is likely a bug with the library.">>
      [] e.kind = "Missing" ->
           <<"Expected ", e.element, " but found ", Backtick, e.lexeme, Backtick,
             " at line ", ToString(e.position.line),
             " column ", ToString(e.position.column)>>

POk(v, n) == [ok |-> TRUE, value |-> v, pos |-> n]

\* an error that hands the cursor back at the first token
PErr_rewind(e, n) == [ok |-> FALSE, value |-> e, pos |-> 0]

PErr(e, n) == [ok |-> FALSE, value |-> e, pos |-> n]

\* a parser that reports the token after the offending one
consume_expected_token_next_position(toks, n, expected, required_element) ==
    IF ~HasNext(toks, n) THEN PErr(UnexpectedEndOfFile, n)
    ELSE IF Peek(toks, n).kind = expected THEN POk(Peek(toks, n), n + 1)
    ELSE PErr(Missing(required_element,
                      toks[IF n + 2 <= Len(toks) THEN n + 2 ELSE n + 1].lexeme,
                      toks[IF n + 2 <= Len(toks) THEN n + 2 ELSE n + 1].position),
              n + 1)

\* consume_expected_token_with_action!: the value is the matched token, from
\* which the caller's action takes what it needs
consume_expected_token(toks, n, expected, required_element) ==
    IF ~HasNext(toks, n) THEN PErr(UnexpectedEndOfFile, n)
    ELSE IF Peek(toks, n).kind = expected THEN POk(Peek(toks, n), n + 1)
    ELSE PErr(Missing(required_element, toks[n + 1].lexeme, toks[n + 1].position),
              n + 1)

consume_expected_identifier(toks, n) ==
    LET r == consume_expected_token(toks, n, "Identifier", "Identifier")
    IN IF r.ok THEN POk(r.value.text, r.pos) ELSE r

parse_json(toks, n) ==
    LET c == consume_expected_token(toks, n, "Colon", "Colon") IN
    IF ~c.ok THEN c
    ELSE LET l == consume_expected_token(toks, c.pos, "StringLiteral", "StringLiteral")
         IN IF ~l.ok THEN l
            ELSE IF l.value.text = "-" THEN POk([node |-> "IgnoreField"], l.pos)
            ELSE POk([node |-> "JSONName", name |-> l.value.text], l.pos)

parse_binding(toks, n) ==
    LET c == consume_expected_token(toks, n, "Colon", "Colon") IN
    IF ~c.ok THEN c
    ELSE LET l == consume_expected_token(toks, c.pos, "StringLiteral", "StringLiteral")
         IN IF ~l.ok THEN l ELSE POk([node |-> "Binding"], l.pos)

Block(stmts) == [node |-> "Block", statements |-> stmts]

RECURSIVE parse_declaration(_, _), parse_struct_declaration(_, _),
          parse_block_loop(_, _, _), parse_backtick_block_loop(_, _, _),
          parse_identifier(_, _, _), parse_identifier_to_backticks(_, _, _)

\* the while loop of parse_block and what follows it; the loop is left only
\* at a RightBrace, so the UnexpectedEndOfFile after it is never returned
parse_block_loop(toks, n, stmts) ==
    IF HasNext(toks, n) /\ Peek(toks, n).kind = "RightBrace"
    THEN POk(Block(stmts), n + 1)
    ELSE LET d == parse_declaration(toks, n) IN
         IF d.ok THEN parse_block_loop(toks, d.pos, Append(stmts, d.value))
         ELSE d

parse_block(toks, n) == parse_block_loop(toks, n, <<>>)

parse_backtick_block_loop(toks, n, stmts) ==
    IF HasNext(toks, n) /\ Peek(toks, n).kind = "Graveaccent"
    THEN POk(Block(stmts), n + 1)
    ELSE LET d == parse_declaration(toks, n) IN
         IF d.ok
         THEN parse_backtick_block_loop(toks, d.pos, Append(stmts, d.value))
         ELSE d

parse_backtick_block(toks, n) == parse_backtick_block_loop(toks, n, <<>>)

parse_struct_declaration(toks, n) ==
    LET identifier_ == consume_expected_identifier(toks, n) IN
    IF ~identifier_.ok THEN identifier_
    ELSE LET s_ == consume_expected_token(toks, identifier_.pos, "Struct", "Struct") IN
    IF ~s_.ok THEN s_
    ELSE LET b_ == consume_expected_token(toks, s_.pos, "LeftBrace", "LeftBrace") IN
    IF ~b_.ok THEN b_
    ELSE LET block == parse_block(toks, b_.pos) IN
    IF ~block.ok THEN block
    ELSE POk([node |-> "StructDefinition", name |-> identifier_.value,
              body |-> block.value], block.pos)

\* the tag block after a field: the field with the statements of the block
with_tags(toks, n, field) ==
    LET res == parse_backtick_block(toks, n)
    IN IF res.ok THEN POk([field EXCEPT !.tags = res.value.statements], res.pos)
       ELSE res

parse_identifier_to_backticks(prev_item, toks, n) ==
    LET grave == HasNext(toks, n) /\ Peek(toks, n).kind = "Graveaccent"
        v == prev_item.value
    IN
    IF grave /\ prev_item.ok /\ v.node = "FieldWithJSONTags"
    THEN with_tags(toks, n + 1,
             [node |-> "FieldWithJSONTags", name |-> v.name,
                        typ |-> v.typ, tags |-> <<>>])
    ELSE IF grave /\ prev_item.ok /\ v.node = "FieldNameWithTypeOnly"
    THEN with_tags(toks, n + 1,
             [node |-> "FieldWithJSONTags", name |-> v.name,
                        typ |-> v.typ, tags |-> <<>>])
    ELSE IF grave /\ prev_item.ok /\ v.node = "FieldWithIdentifierTypeOnly"
    THEN with_tags(toks, n + 1,
             [node |-> "FieldWithIdentifierAndJSONTags", name |-> v.name,
                        literal |-> v.literal, tags |-> <<>>])
    ELSE IF /\ HasNext(toks, n) /\ Peek(toks, n).kind = "RightBracket"
            /\ prev_item.ok /\ v.node = "FieldWithList"
    THEN LET m == n + 1
             item_type ==
                 IF ~HasNext(toks, m) THEN PErr(UnexpectedEndOfFile, m)
                 ELSE IF Peek(toks, m).kind = "DataType"
                 THEN POk([node |-> "FieldWithListAndType", name |-> v.name,
                           typ |-> Peek(toks, m).dtype], m + 1)
                 ELSE IF Peek(toks, m).kind = "Identifier"
                 THEN POk([node |-> "FieldWithCustomListIdentifier", name |-> v.name,
                           customtype |-> Peek(toks, m).text], m + 1)
                 ELSE PErr(UnknownError, m)
             k == item_type.pos
             w == item_type.value
             after == IF HasNext(toks, k) THEN Peek(toks, k).kind ELSE "None"
         IN  IF item_type.ok /\ w.node = "FieldWithListAndType" /\ after = "Graveaccent"
             THEN with_tags(toks, k + 1,
             [node |-> "FieldWithListTypeAndJSONTags",
                                 name |-> w.name, typ |-> w.typ, tags |-> <<>>])
             ELSE IF /\ item_type.ok /\ w.node = "FieldWithCustomListIdentifier"
                     /\ after = "Graveaccent"
             THEN with_tags(toks, k + 1,
             [node |-> "FieldWithCustomListIdentifierAndJSONTags",
                                 name |-> w.name, customtype |-> w.customtype,
                                 tags |-> <<>>])
             ELSE IF after = "NextLine" THEN item_type
             ELSE PErr(UnexpectedEndOfFile, k)
    ELSE [prev_item EXCEPT !.pos = n]

parse_identifier(identifier_, toks, n) ==
    LET k == IF HasNext(toks, n) THEN Peek(toks, n).kind ELSE "None"
        item ==
            CASE k = "DataType" ->
                   POk([node |-> "FieldNameWithTypeOnly", name |-> identifier_,
                        typ |-> Peek(toks, n).dtype], n + 1)
              [] k = "Identifier" ->
                   POk([node |-> "FieldWithIdentifierTypeOnly", name |-> identifier_,
                        literal |-> Peek(toks, n).text], n + 1)
              [] k = "NextLine" ->
                   POk([node |-> "FieldNameOnly", name |-> identifier_], n + 1)
              [] k = "Graveaccent" ->
                   POk([node |-> "FieldWithJSONTags", name |-> identifier_,
                        typ |-> "Any", tags |-> <<>>], n)
              [] k = "LeftBracket" ->
                   POk([node |-> "FieldWithList", name |-> identifier_], n + 1)
              [] k = "None" -> PErr(UnexpectedEndOfFile, n)
              [] OTHER -> PErr(UnknownError, n)
    IN parse_identifier_to_backticks(item, toks, item.pos)

parse_declaration(toks, n) ==
    IF ~HasNext(toks, n) THEN PErr(UnexpectedEndOfFile, n)
    ELSE LET t == Peek(toks, n) IN
         CASE t.kind = "Type" -> parse_struct_declaration(toks, n + 1)
           [] t.kind = "Identifier" -> parse_identifier(t.text, toks, n + 1)
           [] t.kind = "LeftBrace" -> parse_block(toks, n + 1)
           [] t.kind = "Json" -> parse_json(toks, n + 1)
           [] t.kind = "Binding" -> parse_binding(toks, n + 1)
           [] OTHER -> POk([node |-> "Unknown"], n + 1)

\* a parse that returns what it parsed whenever it parsed something
parse_return_partial(stmts, errs) ==
    IF errs = <<>> \/ stmts # <<>> THEN Ok(stmts) ELSE Err(errs)

\* the end of parse
parse_return(stmts, errs) ==
    IF errs = <<>> THEN Ok(stmts) ELSE Err(errs)

(***************************************************************************)
(* parse: one action per iteration of its loop that pushes a statement or  *)
(* a diagnostic, one for the iteration that breaks and the return.         *)
(***************************************************************************)
T(kind) == [kind |-> kind]
TIdent(name) == [kind |-> "Identifier", text |-> name]
TString(text) == [kind |-> "StringLiteral", text |-> text]
TData(dtype) == [kind |-> "DataType", dtype |-> dtype]

\* the text a token is scanned from
LexemeOf(t) ==
    CASE t.kind = "Type" -> "type"
      [] t.kind = "Struct" -> "struct"
      [] t.kind = "Json" -> "json"
      [] t.kind = "Binding" -> "binding"
      [] t.kind = "LeftBrace" -> "{"
      [] t.kind = "RightBrace" -> "}"
      [] t.kind = "LeftBracket" -> "["
      [] t.kind = "RightBracket" -> "]"
      [] t.kind = "Colon" -> ":"
      [] t.kind = "Graveaccent" -> Backtick
      [] t.kind = "NextLine" -> Newline
      [] t.kind = "Identifier" -> t.text
      [] t.kind = "StringLiteral" -> Quote \o t.text \o Quote
      [] t.kind = "DataType" ->
           (CASE t.dtype = "Number" -> "int"
              [] t.dtype = "String" -> "string"
              [] t.dtype = "Boolean" -> "bool"
              [] OTHER -> "any")

\* tokens with their context: the line counts the NextLine tokens before
\* the token, the column is its ordinal
RECURSIVE ContextFrom(_, _, _)
ContextFrom(ts, i, line) ==
    IF ts = <<>> THEN <<>>
    ELSE <<[token |-> Head(ts), lexeme |-> LexemeOf(Head(ts)),
            position |-> [line |-> line, column |-> i]]>>
         \o ContextFrom(Tail(ts), i + 1,
                        IF Head(ts).kind = "NextLine" THEN line + 1 ELSE line)

WithContext(ts) == ContextFrom(ts, 1, 1)

TokenAlphabet ==
    { T("Type"), T("Struct"), T("LeftBrace"), T("RightBrace"), T("Colon"),
      T("Graveaccent"), T("NextLine"), T("LeftBracket"), T("RightBracket"),
      T("Json"), T("Binding"), TIdent("A"), TString("x"), TString("-"),
      TData("String") }

TokenPrefixes ==
    { <<>>,
      <<T("Type"), TIdent("S"), T("Struct"), T("LeftBrace")>>,
      <<TIdent("L"), T("LeftBracket"), T("RightBracket"), TData("Number")>>,
      <<T("Type"), TIdent("S"), T("Struct"), T("LeftBrace"),
        TIdent("F"), TData("Boolean"), T("Graveaccent")>> }

TokenInputs ==
    { WithContext(p \o s) : p \in TokenPrefixes, s \in SeqsUpTo(TokenAlphabet, MaxTokens) }

InitParse ==
    /\ pc = "parse"
    /\ tokens \in TokenInputs
    /\ peekable_tokens = 0
    /\ statements = <<>>
    /\ errors = <<>>
    /\ parse_result = Null
    /\ calls = <<>>
    /\ ScanIdle
    /\ RenderIdle

Call(n, r) == [start |-> n, ok |-> r.ok, value |-> r.value, end |-> r.pos]

ParseStatement ==
    /\ pc = "parse"
    /\ LET r == parse_declaration(tokens, peekable_tokens) IN
       /\ r.ok
       /\ statements' = Append(statements, r.value)
       /\ peekable_tokens' = r.pos
       /\ calls' = Append(calls, Call(peekable_tokens, r))
    /\ UNCHANGED <<pc, tokens, errors, parse_result, scanVars, renderVars>>

ParseError ==
    /\ pc = "parse"
    /\ LET r == parse_declaration(tokens, peekable_tokens) IN
       /\ ~r.ok
       /\ r.value # UnexpectedEndOfFile
       /\ errors' = Append(errors, fmt_ParseError(r.value))
       /\ peekable_tokens' = r.pos
       /\ calls' = Append(calls, Call(peekable_tokens, r))
    /\ UNCHANGED <<pc, tokens, statements, parse_result, scanVars, renderVars>>

ParseReturn ==
    /\ pc = "parse"
    /\ LET r == parse_declaration(tokens, peekable_tokens) IN
       /\ ~r.ok
       /\ r.value = UnexpectedEndOfFile
       /\ peekable_tokens' = r.pos
       /\ calls' = Append(calls, Call(peekable_tokens, r))
    /\ parse_result' = parse_return(statements, errors)
    /\ pc' = "parsed"
    /\ UNCHANGED <<tokens, statements, errors, scanVars, renderVars>>

NextParse == ParseStatement \/ ParseError \/ ParseReturn

SpecParse == InitParse /\ [][NextParse]_vars

(***************************************************************************)
(* parse as a function of its tokens: the loop above run to its end.       *)
(***************************************************************************)
RECURSIVE parse_loop(_, _, _, _)
parse_loop(toks, n, stmts, errs) ==
    LET r == parse_declaration(toks, n) IN
    IF r.ok THEN parse_loop(toks, r.pos, Append(stmts, r.value), errs)
    ELSE IF r.value = UnexpectedEndOfFile THEN parse_return(stmts, errs)
    ELSE parse_loop(toks, r.pos, stmts, Append(errs, fmt_ParseError(r.value)))

parse(toks) == parse_loop(toks, 0, <<>>, <<>>)

(***************************************************************************)
(* The renderer of src/treewalk/interpreter.rs, over the GoStruct values   *)
(* the parser builds.                                                      *)
(***************************************************************************)
\* Display of crate::data_types::Type
fmt_Type(typ) ==
    CASE typ = "Number" -> "number"
      [] typ = "String" -> "string"
      [] typ = "Boolean" -> "boolean"
      [] OTHER -> "any"

new_interface(t, name) ==
    IF t = "Flow" THEN <<"export type ", name, " =">>
    ELSE <<"export interface ", name>>

\* the name after the loop over the tags: the last JSONName, if any
RECURSIVE json_name(_, _)
json_name(name, json) ==
    IF json = <<>> THEN name
    ELSE json_name(IF Head(json).node = "JSONName" THEN Head(json).name ELSE name,
                   Tail(json))

\* Option<String>: Null, or the text
Some(text) == [none |-> FALSE, value |-> text]

interpret_json_tags(name, field_type, json) ==
    LET resolved == json_name(name, json) IN
    IF resolved = "-" THEN Null ELSE Some(<<resolved, ":", field_type>>)

\* .map(|s| format!("{}<suffix>", s)).unwrap_or_default()
map_or_default(opt, suffix) ==
    IF opt.none THEN <<>> ELSE opt.value \o suffix

\* a FieldNameOnly arm that pushes a named field without a type
field_name_only_as_named(name) == <<name, "?", ": ", "; ">>

\* the arm of FieldNameOnly: format!("... {};", name)
field_name_only(name) == <<"... ", name, ";">>

\* one arm of the match in interpret_struct_body: what it pushes
interpret_statement(st) ==
    CASE st.node = "FieldNameWithTypeOnly" ->
           <<st.name, "?", ": ", fmt_Type(st.typ), "; ">>
      [] st.node = "FieldWithJSONTags" ->
           map_or_default(interpret_json_tags(st.name, fmt_Type(st.typ), st.tags),
                          <<"; ">>)
      [] st.node = "FieldNameOnly" -> field_name_only(st.name)
      [] st.node = "FieldWithListAndType" ->
           <<st.name, ":", fmt_Type(st.typ), "[]", ";">>
      [] st.node = "FieldWithListTypeAndJSONTags" ->
           map_or_default(interpret_json_tags(st.name, fmt_Type(st.typ), st.tags),
                          <<"[]", ";">>)
      [] st.node = "FieldWithIdentifierAndJSONTags" ->
           map_or_default(interpret_json_tags(st.name, st.literal, st.tags), <<";">>)
      [] st.node = "FieldWithIdentifierTypeOnly" ->
           <<st.name, ": ", st.literal, "; ">>
      [] st.node = "FieldWithCustomListIdentifier" ->
           <<st.name, ": ", st.customtype, "; ">>
      [] st.node = "FieldWithCustomListIdentifierAndJSONTags" ->
           map_or_default(interpret_json_tags(st.name, st.customtype, st.tags),
                          <<"[]", ";">>)
      [] OTHER -> <<>>

RECURSIVE interpret_statements(_)
interpret_statements(stmts) ==
    IF stmts = <<>> THEN <<>>
    ELSE interpret_statement(Head(stmts)) \o interpret_statements(Tail(stmts))

\* a renderer that pushes each field in front of the fields before it
RECURSIVE interpret_statements_reversed(_)
interpret_statements_reversed(stmts) ==
    IF stmts = <<>> THEN <<>>
    ELSE interpret_statements_reversed(Tail(stmts)) \o interpret_statement(Head(stmts))

interpret_struct_body_reversed(body) ==
    IF body.node = "Block" THEN interpret_statements_reversed(body.statements)
    ELSE <<>>

interpret_struct_body(body) ==
    IF body.node = "Block" THEN interpret_statements(body.statements) ELSE <<>>

\* interpret_struct: Null at the end of the items, otherwise the text of the
\* next item and the cursor after it
interpret_struct(items, n, t) ==
    IF n >= Len(items) THEN Null
    ELSE LET item == items[n + 1] IN
         IF item.node = "StructDefinition"
         THEN [none |-> FALSE,
               value |-> new_interface(t, item.name)
                         \o <<" { ">> \o interpret_struct_body(item.body) \o <<"};">>,
               pos |-> n + 1]
         ELSE [none |-> FALSE, value |-> <<>>, pos |-> n + 1]

(***************************************************************************)
(* The renderer of typify_gostruct/src/interpreters/typescript.rs, over    *)
(* the AST of its crate version: AST::Declaration(StructDeclaration),      *)
(* AST::Field, AST::Error; Field::Blank, Plain, WithTags; FieldType::One   *)
(* and List of a DataType; tags as a map from "json" and "binding".        *)
(***************************************************************************)
OPENING_BRACKET == "{"
CLOSING_BRACKET == "}"

Normal(text) == [kind |-> "Normal", text |-> text]
Embedded == [kind |-> "Embedded"]

get_field_type(data_type) ==
    CASE data_type.kind = "Number" -> Normal(<<"number">>)
      [] data_type.kind = "String" -> Normal(<<"string">>)
      [] data_type.kind = "Boolean" -> Normal(<<"boolean">>)
      [] data_type.kind = "Custom" -> Normal(<<data_type.name>>)
      [] data_type.kind = "Embedded" -> Embedded

convert_field_type(field_type) ==
    LET single_or_list_item_notation ==
            IF field_type.kind = "List" THEN <<"[]">> ELSE <<>>
        ft == get_field_type(field_type.data)
    IN IF ft.kind = "Normal" THEN Normal(ft.text \o single_or_list_item_notation)
       ELSE Embedded

interpret_field_with_tags(field_name, field_type, tags) ==
    LET name == IF "json" \in DOMAIN tags THEN tags["json"] ELSE field_name
        ft == convert_field_type(field_type)
    IN IF ft.kind = "Normal" THEN <<name, " : ">> \o ft.text \o <<", ">>
       ELSE <<"...", name, ", ">>

interpret_field(field) ==
    CASE field.shape = "Blank" -> <<>>
      [] field.shape = "Plain" ->
           (LET ft == convert_field_type(field.field_type) IN
            IF ft.kind = "Normal" THEN <<field.name, " : ">> \o ft.text \o <<",">>
            ELSE <<"...", field.name, ", ">>)
      [] field.shape = "WithTags" ->
           interpret_field_with_tags(field.name, field.field_type, field.tags)

RECURSIVE interpret_fields(_)
interpret_fields(body) ==
    IF body = <<>> THEN <<>>
    ELSE interpret_field(Head(body)) \o interpret_fields(Tail(body))

TypeScriptInterpreter_interpret_struct(declaration) ==
    <<"\n export interface ", declaration.name, " = ", OPENING_BRACKET>>
    \o interpret_fields(declaration.body) \o <<CLOSING_BRACKET>>

ExpectedStructFoundField == [kind |-> "ExpectedStructFoundField"]

(***************************************************************************)
(* Rendering: interpret of interpreter.rs is given what parse returns for  *)
(* a source of struct declarations; interpret of typescript.rs is given a  *)
(* sequence of AST items.  One action per iteration of the loop of each    *)
(* interpret, one per return.                                              *)
(***************************************************************************)
FieldName(i) == "F" \o ToString(i)
JsonValue(i) == "j" \o ToString(i)
StructName(j) == "S" \o ToString(j)

JsonTag(v) == <<T("Json"), T("Colon"), TString(v)>>
BindingTag == <<T("Binding"), T("Colon"), TString("required")>>
TagBlock(entries) == <<T("Graveaccent")>> \o entries \o <<T("Graveaccent")>>
ListOf(t) == <<T("LeftBracket"), T("RightBracket"), t>>

\* the lines a field of a struct body can be, as tokens
FieldShapes(i) ==
    LET n == <<TIdent(FieldName(i))>>
        nl == <<T("NextLine")>>
        j == JsonTag(JsonValue(i))
    IN << n \o <<TData("Number")>> \o nl,
         n \o <<TIdent("Foo")>> \o nl,
         n \o nl,
         n \o TagBlock(j) \o nl,
         n \o <<TData("String")>> \o TagBlock(j) \o nl,
         n \o <<TData("String")>> \o TagBlock(JsonTag("-")) \o nl,
         n \o <<TData("Boolean")>> \o TagBlock(j \o BindingTag) \o nl,
         n \o <<TIdent("Foo")>> \o TagBlock(j) \o nl,
         n \o ListOf(TData("String")) \o nl,
         n \o ListOf(TIdent("Foo")) \o nl,
         n \o ListOf(TData("Number")) \o TagBlock(j) \o nl,
         n \o ListOf(TIdent("Foo")) \o TagBlock(JsonTag("-")) \o nl,
         <<TIdent("-"), TData("String")>> \o TagBlock(BindingTag) \o nl >>

\* A source is chosen by its plan: one sequence per struct, of the numbers
\* of the shapes of its fields.  BodyPlans(k, n): the plans of k fields out
\* of n shapes.
RECURSIVE BodyPlans(_, _)
BodyPlans(k, n) ==
    IF k = 0 THEN {<<>>}
    ELSE LET shorter == BodyPlans(k - 1, n)
         IN {<<c>> \o b : c \in 1..n, b \in shorter}

\* the plans of at most s structs with at most f fields in all
RECURSIVE Plans(_, _, _)
Plans(s, f, n) ==
    {<<>>} \cup
    (IF s = 0 THEN {}
     ELSE UNION { LET bodies == BodyPlans(k, n)
                      rests == Plans(s - 1, f - k, n)
                  IN {<<b>> \o rest : b \in bodies, rest \in rests}
                  : k \in 0..f })

Body(plan) == Flatten([i \in 1..Len(plan) |-> FieldShapes(i)[plan[i]]])

StructSource(j, body) ==
    <<T("Type"), TIdent(StructName(j)), T("Struct"), T("LeftBrace"), T("NextLine")>>
    \o body \o <<T("RightBrace")>>

Source(plan) == Flatten([j \in 1..Len(plan) |-> StructSource(j, Body(plan[j]))])

\* what may stand before the first struct: nothing, or a field line outside
\* any struct (it counts as one of the fields of the source)
TopLevelField(lead) ==
    IF lead = 0 THEN <<>> ELSE <<TIdent("G0"), TData("Number"), T("NextLine")>>

\* the fields of the AST of typescript.rs
One(d) == [kind |-> "One", data |-> d]
List(d) == [kind |-> "List", data |-> d]
Data(k) == [kind |-> k]
Custom(name) == [kind |-> "Custom", name |-> name]
Plain(name, ft) == [shape |-> "Plain", name |-> name, field_type |-> ft]
WithTags(name, ft, tags) ==
    [shape |-> "WithTags", name |-> name, field_type |-> ft, tags |-> tags]

TsFieldShapes(i) ==
    LET n == FieldName(i)
        j == JsonValue(i)
    IN << [shape |-> "Blank"],
         Plain(n, One(Data("Number"))),
         Plain(n, One(Data("Embedded"))),
         Plain(n, List(Custom("Foo"))),
         WithTags(n, One(Data("String")), [json |-> j]),
         WithTags(n, One(Data("String")), [json |-> "-"]),
         WithTags(n, List(Data("Boolean")), [binding |-> "required"]),
         WithTags(n, One(Custom("Foo")), [json |-> j, binding |-> "required"]),
         WithTags(n, One(Data("Embedded")), [json |-> j]) >>

\* the items that are no declaration
TsOtherItems ==
    << [node |-> "Field", field |-> [shape |-> "Blank"]], [node |-> "Error"] >>

\* the plan of an item of typescript.rs: the plan of a declaration's body,
\* or the number of another item
TsPlans(s, f) ==
    LET declarations == Plans(s, f, Len(TsFieldShapes(1)))
        others(p) == {o \in [1..Len(p) -> 0..Len(TsOtherItems)] :
                         \A j \in 1..Len(p) : o[j] # 0 => p[j] = <<>>}
    IN UNION { others(p) \X {p} : p \in declarations }

TsItem(j, other, body) ==
    IF other # 0 THEN TsOtherItems[other]
    ELSE [node |-> "Declaration", name |-> StructName(j),
          body |-> [i \in 1..Len(body) |-> TsFieldShapes(i)[body[i]]]]

TsProgram(plan) ==
    [j \in 1..Len(plan[2]) |-> TsItem(j, plan[1][j], plan[2][j])]

Init ==
    /\ pc = "interpret"
    /\ \/ /\ mode = "treewalk"
          /\ \E lead \in 0..1 :
             \E plan \in Plans(MaxStructs, MaxFields - lead, Len(FieldShapes(1))) :
                LET source == TopLevelField(lead) \o Source(plan)
                    parsed == parse(WithContext(source))
                IN
                /\ tokens = WithContext(source)
                /\ parsed.ok
                /\ ast = parsed.value
          /\ transform_to \in {"Flow", "Typescript"}
       \/ /\ mode = "typescript"
          /\ tokens = <<>>
          /\ \E plan \in TsPlans(MaxStructs, MaxFields) : ast = TsProgram(plan)
          /\ transform_to = "Typescript"
    /\ ast_pos = 0
    /\ target = <<>>
    /\ interpret_result = Null
    /\ peekable_tokens = 0
    /\ statements = <<>>
    /\ errors = <<>>
    /\ parse_result = Null
    /\ calls = <<>>
    /\ ScanIdle

InterpretStruct ==
    /\ pc = "interpret"
    /\ mode = "treewalk"
    /\ LET r == interpret_struct(ast, ast_pos, transform_to) IN
       /\ ~r.none
       /\ target' = target \o r.value
       /\ ast_pos' = r.pos
    /\ UNCHANGED <<pc, mode, transform_to, ast, interpret_result, scanVars, parseVars>>

InterpretReturn ==
    /\ pc = "interpret"
    /\ mode = "treewalk"
    /\ interpret_struct(ast, ast_pos, transform_to).none
    /\ interpret_result' = target
    /\ pc' = "interpreted"
    /\ UNCHANGED <<mode, transform_to, ast, ast_pos, target, scanVars, parseVars>>

TsInterpretItem ==
    /\ pc = "interpret"
    /\ mode = "typescript"
    /\ ast_pos < Len(ast)
    /\ ast[ast_pos + 1].node = "Declaration"
    /\ target' = target \o TypeScriptInterpreter_interpret_struct(ast[ast_pos + 1])
    /\ ast_pos' = ast_pos + 1
    /\ UNCHANGED <<pc, mode, transform_to, ast, interpret_result, scanVars, parseVars>>

TsInterpretFail ==
    /\ pc = "interpret"
    /\ mode = "typescript"
    /\ ast_pos < Len(ast)
    /\ ast[ast_pos + 1].node # "Declaration"
    /\ interpret_result' = Err(ExpectedStructFoundField)
    /\ pc' = "interpreted"
    /\ UNCHANGED <<mode, transform_to, ast, ast_pos, target, scanVars, parseVars>>

TsInterpretReturn ==
    /\ pc = "interpret"
    /\ mode = "typescript"
    /\ ast_pos = Len(ast)
    /\ interpret_result' = Ok(target)
    /\ pc' = "interpreted"
    /\ UNCHANGED <<mode, transform_to, ast, ast_pos, target, scanVars, parseVars>>

Next ==
    \/ InterpretStruct
    \/ InterpretReturn
    \/ TsInterpretItem
    \/ TsInterpretFail
    \/ TsInterpretReturn

Spec == Init /\ [][Next]_vars

(***************************************************************************)
(* Properties of parse                                                     *)
(***************************************************************************)
KindAt(i) == tokens[i].token.kind

\* a call that returned an error other than the end of file met at the end
\* of the input
Diagnosed(c) ==
    ~c.ok /\ ~(c.value = UnexpectedEndOfFile /\ c.end = Len(tokens))
Recorded(c) == ~c.ok /\ c.value # UnexpectedEndOfFile
Parsed(c) == c.ok

\* the number of diagnostics recorded by the first k calls
DiagIndex(k) == Cardinality({j \in 1..k : Recorded(calls[j])})

\* the text of a Missing diagnostic, as the specification words it
MissingText(element, tok) ==
    <<"Expected ", element, " but found ", Backtick, tok.lexeme, Backtick,
      " at line ", ToString(tok.position.line),
      " column ", ToString(tok.position.column)>>

\* the token sequence is a struct header followed by complete fields only,
\* and ends inside the struct body or inside the tag block of a field
RECURSIVE OpenBody(_), OpenTag(_)
OpenBody(i) ==
    IF i > Len(tokens) THEN TRUE
    ELSE IF KindAt(i) = "NextLine" THEN OpenBody(i + 1)
    ELSE IF KindAt(i) = "Identifier" /\ i + 1 <= Len(tokens) /\ KindAt(i + 1) = "DataType"
    THEN IF i + 2 <= Len(tokens) /\ KindAt(i + 2) = "Graveaccent"
         THEN OpenTag(i + 3)
         ELSE OpenBody(i + 2)
    ELSE FALSE
OpenTag(i) ==
    IF i > Len(tokens) THEN TRUE
    ELSE IF KindAt(i) = "Graveaccent" THEN OpenBody(i + 1)
    ELSE IF /\ i + 2 <= Len(tokens)
            /\ KindAt(i) \in {"Json", "Binding"}
            /\ KindAt(i + 1) = "Colon"
            /\ KindAt(i + 2) = "StringLiteral"
    THEN OpenTag(i + 3)
    ELSE FALSE

EndsInOpenStruct ==
    /\ Len(tokens) >= 4
    /\ KindAt(1) = "Type" /\ KindAt(2) = "Identifier"
    /\ KindAt(3) = "Struct" /\ KindAt(4) = "LeftBrace"
    /\ OpenBody(5)

\* C2 (as claimed): an input that ends inside an open struct body or an open
\* tag block makes parse fail with an UnexpectedEndOfFile diagnostic.
C2_Original ==
    (pc = "parsed" /\ EndsInOpenStruct) =>
        /\ ~parse_result.ok
        /\ \E k \in 1..Len(parse_result.value) :
              parse_result.value[k] = <<"Unexpected End Of file">>

\* C3 (as claimed): a declaration that fails before the end of the input
\* never stops the parse, and the diagnostics of all such declarations are
\* the recorded errors, in source order.
C3_Original ==
    /\ pc = "parsed" => peekable_tokens = Len(tokens)
    /\ Len(errors) = Cardinality({k \in 1..Len(calls) : Diagnosed(calls[k])})
    /\ \A k \in 1..Len(calls) :
          Diagnosed(calls[k]) => errors[DiagIndex(k)] = fmt_ParseError(calls[k].value)

Values(cs) == [i \in 1..Len(cs) |-> cs[i].value]

\* C4: parse returns Ok with all parsed declarations iff no diagnostic was
\* recorded during the parse, otherwise Err with all recorded diagnostics
\* and no declarations.
C4_ParseResult ==
    pc = "parsed" =>
        LET failed == SelectSeq(calls, Recorded)
            parsed == Values(SelectSeq(calls, Parsed))
            texts == [i \in 1..Len(failed) |-> fmt_ParseError(failed[i].value)]
        IN  IF failed = <<>>
            THEN parse_result = Ok(parsed)
            ELSE parse_result = Err(texts)

\* declarations were parsed before and after an error, and none is returned
C4_Witness ==
    /\ pc = "parsed"
    /\ ~parse_result.ok
    /\ \E i \in 1..Len(calls) : \E j \in 1..Len(calls) : \E k \in 1..Len(calls) :
          i < j /\ j < k /\ calls[i].ok /\ Recorded(calls[j]) /\ calls[k].ok

\* the elements a struct declaration requires after `type`, in order
StructHead == <<"Identifier", "Struct", "LeftBrace">>

\* the first of the three positions after the `type` token at index i that
\* holds no token or another token than required; 0 if there is none
FirstBad(i) ==
    LET bad == {j \in 1..3 : i + j > Len(tokens) \/ KindAt(i + j) # StructHead[j]}
    IN IF bad = {} THEN 0 ELSE CHOOSE j \in bad : \A m \in bad : j <= m

\* C5: after `type`, an identifier, `struct` and `{` are required in that
\* order; the first other token gives Missing(expected element, its lexeme,
\* its position), worded "Expected <Element> but found `<lexeme>` at line
\* <L> column <C>", and the end of the input gives UnexpectedEndOfFile.
C5_StructHeader ==
    \A k \in 1..Len(calls) :
        LET c == calls[k]
            i == c.start + 1
            j == FirstBad(i)
        IN  (i <= Len(tokens) /\ KindAt(i) = "Type" /\ j # 0) =>
                IF i + j > Len(tokens)
                THEN ~c.ok /\ c.value = UnexpectedEndOfFile
                ELSE /\ ~c.ok
                     /\ c.value = Missing(StructHead[j], tokens[i + j].lexeme,
                                          tokens[i + j].position)
                     /\ c.end = i + j
                     /\ errors[DiagIndex(k)] = MissingText(StructHead[j], tokens[i + j])

\* a declaration that lacks `struct` after its name was parsed and its
\* diagnostic recorded
C5_Witness ==
    \E k \in 1..Len(calls) :
        /\ calls[k].start < Len(tokens)
        /\ KindAt(calls[k].start + 1) = "Type"
        /\ FirstBad(calls[k].start + 1) = 2
        /\ calls[k].start + 3 <= Len(tokens)
        /\ ~calls[k].ok
        /\ calls[k].value.kind = "Missing"
        /\ calls[k].value.element = "Struct"
        /\ errors # <<>>

(***************************************************************************)
(* Properties of scan                                                      *)
(***************************************************************************)
\* the lines of a text: the runs of characters between newlines
RECURSIVE LinesOf(_, _)
LinesOf(s, cur) ==
    IF s = <<>> THEN <<cur>>
    ELSE IF Head(s) = Newline THEN <<cur>> \o LinesOf(Tail(s), <<>>)
    ELSE LinesOf(Tail(s), Append(cur, Head(s)))

QuotesIn(l) == Cardinality({i \in 1..Len(l) : l[i] = Quote})

\* a line holds an unterminated string literal iff its quotes do not pair up
RECURSIVE UnterminatedFrom(_, _)
UnterminatedFrom(ls, n) ==
    IF ls = <<>> THEN <<>>
    ELSE (IF QuotesIn(Head(ls)) % 2 = 1
          THEN <<debug_ScannerError(MissingStringTerminator(
                     [line |-> n, column |-> Len(Head(ls)) + 1]))>>
          ELSE <<>>) \o UnterminatedFrom(Tail(ls), n + 1)

ExpectedScanErrors == UnterminatedFrom(LinesOf(input, <<>>), 1)

\* the text without the blanks and pointer sigils that stand outside string
\* literals
RECURSIVE Significant(_, _)
Significant(s, inString) ==
    IF s = <<>> THEN <<>>
    ELSE LET c == Head(s) IN
         IF inString THEN <<c>> \o Significant(Tail(s), c # Quote)
         ELSE IF c = Quote THEN <<c>> \o Significant(Tail(s), TRUE)
         ELSE IF is_whitespace(c) \/ c = "*" THEN Significant(Tail(s), FALSE)
         ELSE <<c>> \o Significant(Tail(s), FALSE)

Before(p, q) == p.line < q.line \/ (p.line = q.line /\ p.column < q.column)

\* C10: scan returns Err with one entry per unterminated string literal, in
\* source order, and no tokens; or, without lexical error, Ok with every
\* token of the source in source order except Whitespace and Pointer tokens.
C10_ScanResult ==
    pc = "scanned" =>
        /\ scanner.source = <<>>
        /\ IF ExpectedScanErrors # <<>>
           THEN scan_result = Err(ExpectedScanErrors)
           ELSE /\ scan_result.ok
                /\ LET ts == scan_result.value IN
                   /\ \A i \in 1..Len(ts) :
                         ts[i].token.kind \notin {"Whitespace", "Pointer"}
                   /\ Flatten([i \in 1..Len(ts) |-> ts[i].lexeme])
                         = Significant(input, FALSE)
                   /\ \A i \in 1..Len(ts) : \A j \in 1..Len(ts) :
                         i < j => Before(ts[i].position, ts[j].position)

\* two unterminated strings are reported although tokens were scanned too
C10_Witness ==
    /\ pc = "scanned"
    /\ ~scan_result.ok
    /\ Len(scan_result.value) = 2
    /\ scan_tokens # <<>>

(***************************************************************************)
(* Properties of the renderers                                             *)
(***************************************************************************)
Rendered == pc = "interpreted"
Treewalk == mode = "treewalk"
TsOk == mode = "typescript" /\ interpret_result.ok

\* the rendered text
Text == IF Treewalk THEN interpret_result ELSE interpret_result.value

IsStruct(item) == item.node = "StructDefinition"
Tagged(st) == "tags" \in DOMAIN st

\* the tag block of the field sets json to "-"
JsonDash(st) ==
    /\ Tagged(st)
    /\ IF Treewalk THEN \E i \in 1..Len(st.tags) : st.tags[i].node = "IgnoreField"
       ELSE "json" \in DOMAIN st.tags /\ st.tags["json"] = "-"

NotJsonDash(st) == ~JsonDash(st)

\* the name the tag block gives the field: its json value, else its own name
ClaimedName(st) ==
    IF Treewalk
    THEN LET js == {i \in 1..Len(st.tags) : st.tags[i].node = "JSONName"}
         IN IF js = {} THEN st.name
            ELSE st.tags[CHOOSE i \in js : \A m \in js : m <= i].name
    ELSE IF "json" \in DOMAIN st.tags THEN st.tags["json"] ELSE st.name

ListNodes ==
    {"FieldWithListAndType", "FieldWithListTypeAndJSONTags",
     "FieldWithCustomListIdentifier", "FieldWithCustomListIdentifierAndJSONTags"}

IsList(st) ==
    IF Treewalk THEN st.node \in ListNodes
    ELSE st.shape # "Blank" /\ st.field_type.kind = "List"

\* the text of the type the source gives the field
TypeText(st) ==
    IF Treewalk
    THEN (CASE "typ" \in DOMAIN st -> fmt_Type(st.typ)
            [] "literal" \in DOMAIN st -> st.literal
            [] "customtype" \in DOMAIN st -> st.customtype
            [] OTHER -> "")
    ELSE (LET d == st.field_type.data IN
          CASE d.kind = "Number" -> "number"
            [] d.kind = "String" -> "string"
            [] d.kind = "Boolean" -> "boolean"
            [] d.kind = "Custom" -> d.name
            [] OTHER -> "")

\* the fields of an item: the statements of a struct body, the body of a
\* declaration
FieldsOf(item) ==
    IF Treewalk THEN (IF IsStruct(item) THEN item.body.statements ELSE <<>>)
    ELSE (IF item.node = "Declaration" THEN item.body ELSE <<>>)

AllFields == Flatten([i \in 1..Len(ast) |-> FieldsOf(ast[i])])

Count(piece, text) == Cardinality({i \in 1..Len(text) : text[i] = piece})

\* the items without the fields whose tag block sets json to "-"
WithoutJsonDash(items) ==
    [i \in 1..Len(items) |->
        IF Treewalk /\ IsStruct(items[i])
        THEN [items[i] EXCEPT !.body.statements = SelectSeq(@, NotJsonDash)]
        ELSE IF ~Treewalk /\ items[i].node = "Declaration"
        THEN [items[i] EXCEPT !.body = SelectSeq(@, NotJsonDash)]
        ELSE items[i]]

\* the text the renderer of the current mode gives for a sequence of items
RenderAll(items) ==
    Flatten([i \in 1..Len(items) |->
        IF Treewalk THEN interpret_struct(items, i - 1, transform_to).value
        ELSE TypeScriptInterpreter_interpret_struct(items[i])])

\* C1 (as claimed): a field whose tag block sets json to "-" contributes
\* nothing to the output, and its sibling fields are rendered unchanged and
\* in order: the output is that of the same items without those fields.
C1_Original ==
    (Rendered /\ Treewalk) => Text = RenderAll(WithoutJsonDash(ast))

\* C6 (as claimed): every list field is rendered with the array marker `[]`
\* right after its element type.
C6_Original ==
    (Rendered /\ (Treewalk \/ TsOk)) =>
        /\ Count("[]", Text) >= Cardinality({k \in 1..Len(AllFields) :
                                    IsList(AllFields[k]) /\ ~JsonDash(AllFields[k])})
        /\ \A i \in 1..Len(Text) :
              Text[i] = "[]" =>
                  i > 1 /\ \E k \in 1..Len(AllFields) :
                              IsList(AllFields[k]) /\ Text[i - 1] = TypeText(AllFields[k])

\* the type of the field was omitted
Unspecified(st) == "typ" \in DOMAIN st /\ st.typ = "Any"

\* C7 (as claimed): the optional marker `?` is rendered only for a field
\* whose type was omitted; a field whose type is given gets a plain colon.
C7_Original ==
    (Rendered /\ Treewalk) =>
        \A i \in 1..Len(Text) :
            Text[i] = "?" =>
                i > 1 /\ \E k \in 1..Len(AllFields) :
                            /\ Unspecified(AllFields[k])
                            /\ Text[i - 1] = ClaimedName(AllFields[k])

IsBinding(tag) == tag.node = "Binding"
NotBinding(tag) == ~IsBinding(tag)

\* C8 (as claimed): a tagged field is rendered under its json value if its
\* tag block has one (other than "-") and under its own name otherwise, with
\* the type the source gives it.
C8_Original ==
    (Rendered /\ Treewalk) =>
        \A k \in 1..Len(AllFields) :
            LET st == AllFields[k] IN
            (Tagged(st) /\ ~JsonDash(st)) =>
                \E i \in 1..Len(Text) :
                    /\ Text[i] = ClaimedName(st)
                    /\ i + 2 <= Len(Text)
                    /\ Text[i + 1] \in {":", " : "}
                    /\ Text[i + 2] = TypeText(st)

\* C9: interpret emits the struct declarations in the order of its input,
\* and inside each struct the field entries in the order of the body, with
\* nothing else than each struct's own template text.
C9_RenderOrder ==
    (Rendered /\ (Treewalk \/ TsOk)) =>
        Text = Flatten([i \in 1..Len(ast) |->
                  LET fs == FieldsOf(ast[i]) IN
                  IF Treewalk
                  THEN IF IsStruct(ast[i])
                       THEN new_interface(transform_to, ast[i].name) \o <<" { ">>
                            \o Flatten([k \in 1..Len(fs) |-> interpret_statement(fs[k])])
                            \o <<"};">>
                       ELSE <<>>
                  ELSE <<"\n export interface ", ast[i].name, " = ", "{">>
                       \o Flatten([k \in 1..Len(fs) |-> interpret_field(fs[k])])
                       \o <<"}">>])

\* two structs with a rendered field each were rendered by interpreter.rs
C9_Witness ==
    /\ Rendered /\ Treewalk
    /\ \E i \in 1..Len(ast) : \E j \in 1..Len(ast) :
          /\ i < j
          /\ IsStruct(ast[i]) /\ IsStruct(ast[j])
          /\ interpret_struct_body(ast[i].body) # <<>>
          /\ interpret_struct_body(ast[j].body) # <<>>

(***************************************************************************)
(* Properties of the scanner's positions                                   *)
(***************************************************************************)
\* the characters consumed so far
Consumed == SubSeq(input, 1, Len(input) - Len(scanner.source))

NewlinesIn(text) == Cardinality({i \in 1..Len(text) : text[i] = Newline})

\* the number of characters of text after its last newline
SinceNewline(text) ==
    LET nls == {i \in 1..Len(text) : text[i] = Newline}
    IN IF nls = {} THEN Len(text)
       ELSE Len(text) - (CHOOSE i \in nls : \A m \in nls : m <= i)

\* the position of the character that follows the first k of the input
PositionAfter(k) ==
    LET text == SubSeq(input, 1, k)
    IN [line |-> 1 + NewlinesIn(text), column |-> 1 + SinceNewline(text)]

\* the lexeme of the token is in the input right after its first k characters
StartsAfter(tk, k) ==
    /\ k + Len(tk.lexeme) <= Len(input)
    /\ SubSeq(input, k + 1, k + Len(tk.lexeme)) = tk.lexeme
    /\ Len(tk.lexeme) > 0

\* C11: the scanner position is (1 + newlines consumed, 1 + characters
\* consumed since the last newline), (1, 1) before anything is consumed; and
\* the position of every token is that of its first character: its lexeme
\* stands in the source at the place its position names, before the cursor.
C11_Positions ==
    (pc \in {"scan", "scanned"}) =>
        /\ scanner.current_position = PositionAfter(Len(Consumed))
        /\ (Consumed = <<>> => scanner.current_position = initial)
        /\ \A i \in 1..Len(scan_tokens) :
              \E k \in 0..(Len(Consumed) - 1) :
                  /\ PositionAfter(k) = scan_tokens[i].position
                  /\ StartsAfter(scan_tokens[i], k)

\* a token of several characters was scanned on the second line, after
\* another character of that line
C11_Witness ==
    /\ pc = "scanned"
    /\ \E i \in 1..Len(scan_tokens) :
          /\ scan_tokens[i].position.line = 2
          /\ scan_tokens[i].position.column > 1
          /\ Len(scan_tokens[i].lexeme) > 1

(***************************************************************************)
(* Properties of string literals                                           *)
(***************************************************************************)
\* the text between the first and the last character of a lexeme
Between(lexeme) == SubSeq(lexeme, 2, Len(lexeme) - 1)

StringLiterals == {i \in 1..Len(scan_tokens) : scan_tokens[i].token.kind = "StringLiteral"}

\* the scanner stands right after a newline it has scanned as a token
NewlineKept ==
    (Consumed # <<>> /\ Consumed[Len(Consumed)] = Newline) =>
        /\ scan_tokens # <<>>
        /\ scan_tokens[Len(scan_tokens)].token.kind = "NextLine"

\* C12 (as claimed): a string literal runs from its opening quote to the
\* next quote and its value is exactly the characters between the two
\* quotes; a literal cut by a newline or by the end of the input yields
\* MissingStringTerminator at the position where scanning stopped, and the
\* newline is scanned as the next token.
C12_Original ==
    (pc \in {"scan", "scanned"}) =>
        /\ \A i \in StringLiterals :
              LET tk == scan_tokens[i] IN
              /\ Len(tk.lexeme) >= 2
              /\ tk.lexeme[1] = Quote /\ tk.lexeme[Len(tk.lexeme)] = Quote
              /\ \A k \in 1..Len(Between(tk.lexeme)) :
                    Between(tk.lexeme)[k] \notin {Quote, Newline}
              /\ tk.token.text = Between(tk.lexeme)
        /\ scan_errors = UnterminatedFrom(LinesOf(Consumed, <<>>), 1)
        /\ NewlineKept

(***************************************************************************)
(* Properties of the failure of interpret                                  *)
(***************************************************************************)
\* some item handed to interpret is no struct declaration
HasNonStruct ==
    \E i \in 1..Len(ast) :
        IF Treewalk THEN ~IsStruct(ast[i]) ELSE ast[i].node # "Declaration"

\* interpret returned the error, and no text (the String that interpret of
\* interpreter.rs returns is never an error)
Failed == ~Treewalk /\ interpret_result = Err(ExpectedStructFoundField)

Succeeded == IF Treewalk THEN TRUE ELSE interpret_result.ok

\* C13 (as claimed): interpretation fails with ExpectedStructFoundField and
\* no text exactly when some top-level item is no struct declaration, and
\* succeeds when every item is one.
C13_Original ==
    Rendered =>
        /\ Failed <=> HasNonStruct
        /\ ~HasNonStruct => Succeeded

(***************************************************************************)
(* Properties of embedded fields                                           *)
(***************************************************************************)
\* token i is an identifier that stands alone on a line of a struct body
IsEmbeddedLine(i) ==
    /\ 1 < i /\ i < Len(tokens)
    /\ KindAt(i - 1) = "NextLine"
    /\ KindAt(i) = "Identifier"
    /\ KindAt(i + 1) = "NextLine"

\* the identifiers of those lines, in source order
EmbeddedLines ==
    LET at == SelectSeq([i \in 1..Len(tokens) |-> i], IsEmbeddedLine)
    IN [k \in 1..Len(at) |-> tokens[at[k]].token.text]

\* the field is an embedded field
IsEmbedded(st) ==
    IF Treewalk THEN st.node = "FieldNameOnly"
    ELSE st.shape # "Blank" /\ st.field_type.data.kind = "Embedded"

NotEmbedded(st) == ~IsEmbedded(st)

\* the identifiers of the embedded fields handed to the renderer, in order
EmbeddedFields ==
    LET fs == SelectSeq(AllFields, IsEmbedded)
    IN [k \in 1..Len(fs) |->
           IF ~Treewalk /\ Tagged(fs[k]) THEN ClaimedName(fs[k]) ELSE fs[k].name]

SpreadMarker == IF Treewalk THEN "... " ELSE "..."
SpreadEnd == IF Treewalk THEN ";" ELSE ", "

\* the identifiers rendered behind a spread marker, in order
Spreads ==
    LET IsSpread(i) == Text[i] = SpreadMarker
        at == SelectSeq([i \in 1..Len(Text) |-> i], IsSpread)
    IN [k \in 1..Len(at) |-> IF at[k] < Len(Text) THEN Text[at[k] + 1] ELSE ""]

\* the text without its spread entries (marker, identifier, end)
RECURSIVE WithoutSpreads(_)
WithoutSpreads(text) ==
    IF text = <<>> THEN <<>>
    ELSE IF Head(text) = SpreadMarker /\ Len(text) >= 3 /\ text[3] = SpreadEnd
    THEN WithoutSpreads(SubSeq(text, 4, Len(text)))
    ELSE <<Head(text)>> \o WithoutSpreads(Tail(text))

\* the items without their embedded fields
WithoutEmbedded(items) ==
    [i \in 1..Len(items) |->
        IF Treewalk /\ IsStruct(items[i])
        THEN [items[i] EXCEPT !.body.statements = SelectSeq(@, NotEmbedded)]
        ELSE IF ~Treewalk /\ items[i].node = "Declaration"
        THEN [items[i] EXCEPT !.body = SelectSeq(@, NotEmbedded)]
        ELSE items[i]]

\* C14: an identifier alone on a line of a struct body is parsed as an
\* embedded field of that identifier, and every embedded field is rendered
\* as a spread marker for its identifier and as nothing else: the output is
\* that of the other fields plus one spread entry per embedded field.
C14_EmbeddedField ==
    (Rendered /\ (Treewalk \/ TsOk)) =>
        /\ Treewalk => EmbeddedFields = EmbeddedLines
        /\ Spreads = EmbeddedFields
        /\ WithoutSpreads(Text) = RenderAll(WithoutEmbedded(ast))

\* interpreter.rs rendered a struct with an embedded field and a typed field
C14_Witness ==
    /\ Rendered /\ Treewalk
    /\ \E i \in 1..Len(ast) :
          /\ IsStruct(ast[i])
          /\ \E k \in 1..Len(FieldsOf(ast[i])) : IsEmbedded(FieldsOf(ast[i])[k])
          /\ \E k \in 1..Len(FieldsOf(ast[i])) :
                FieldsOf(ast[i])[k].node = "FieldNameWithTypeOnly"

(***************************************************************************)
(* Properties of list fields                                               *)
(***************************************************************************)
\* the kind of token i, "None" beyond the end of the input
KindOrNone(i) == IF i <= Len(tokens) THEN KindAt(i) ELSE "None"

\* the call starts at a field name followed by `[`
StartsList(c) ==
    /\ c.start + 2 <= Len(tokens)
    /\ KindAt(c.start + 1) = "Identifier"
    /\ KindAt(c.start + 2) = "LeftBracket"

\* after the `[`, the `]` or the element type is missing
LacksElementType(c) ==
    \/ KindOrNone(c.start + 3) # "RightBracket"
    \/ KindOrNone(c.start + 4) \notin {"DataType", "Identifier"}

\* a list field without an element type
IsBareList(v) == "node" \in DOMAIN v /\ v.node = "FieldWithList"

\* the value, or one of the statements of the block it holds, is such a field
HoldsBareList(v) ==
    \/ IsBareList(v)
    \/ /\ "node" \in DOMAIN v /\ v.node = "Block"
       /\ \E k \in 1..Len(v.statements) : IsBareList(v.statements[k])
    \/ /\ "node" \in DOMAIN v /\ v.node = "StructDefinition"
       /\ \E k \in 1..Len(v.body.statements) : IsBareList(v.body.statements[k])

\* C15 (as claimed): a field name followed by `[` needs `]` and an element
\* type; without them the field does not parse successfully, and no list
\* field without an element type is in a successful parse result.
C15_Original ==
    /\ \A i \in 1..Len(calls) :
          (StartsList(calls[i]) /\ LacksElementType(calls[i])) => ~calls[i].ok
    /\ (pc = "parsed" /\ parse_result.ok) =>
          \A k \in 1..Len(parse_result.value) : ~HoldsBareList(parse_result.value[k])

(***************************************************************************)
(* Properties of the token cursor                                          *)
(***************************************************************************)
\* the call read forward: it ends at or after its start, inside the input,
\* and after its start if a token was left
MovesForward(c) ==
    /\ c.start <= c.end
    /\ c.end <= Len(tokens)
    /\ c.start < Len(tokens) => c.start < c.end

\* each call starts where the call before it ended: no token is read twice
NoReplay ==
    /\ calls # <<>> => calls[1].start = 0 /\ calls[Len(calls)].end = peekable_tokens
    /\ \A i \in 1..(Len(calls) - 1) : calls[i + 1].start = calls[i].end

\* wherever a token is left, a call of parse_declaration consumes one: the
\* calls made by parse_block and parse_backtick_block start at such places
EveryCallConsumes ==
    \A n \in 0..(Len(tokens) - 1) :
        LET r == parse_declaration(tokens, n) IN n < r.pos /\ r.pos <= Len(tokens)

CursorForward ==
    (pc \in {"parse", "parsed"}) =>
        /\ \A i \in 1..Len(calls) : MovesForward(calls[i])
        /\ NoReplay
        /\ EveryCallConsumes
        /\ Len(calls) <= Len(tokens) + 1

\* every iteration of the loop of parse moves the cursor towards the end of
\* the input or leaves the loop: the tokens left are a variant of the loop
LoopProgress ==
    pc = "parse" =>
        \/ pc' = "parsed"
        \/ /\ peekable_tokens < peekable_tokens'
           /\ peekable_tokens' <= Len(tokens)

\* C16: the token cursor only moves forward: every parse_declaration call
\* made while a token remains consumes at least one, no token is read again
\* after it was consumed, and so the loop of parse (with the parse_block and
\* parse_backtick_block calls inside it) ends after at most one iteration
\* per token.
C16_CursorForward == []CursorForward /\ [][LoopProgress]_vars

\* parse returned after a call that failed inside a tag block of a struct
\* body and a later call that parsed
C16_Witness ==
    /\ pc = "parsed"
    /\ \E i \in 1..Len(calls) : \E j \in 1..Len(calls) :
          /\ i < j
          /\ ~calls[i].ok /\ calls[i].start + 7 < calls[i].end
          /\ calls[j].ok

=============================================================================
